---------------------------- MODULE Spec2Model ----------------------------
(***************************************************************************)
(* A model of tools/get_about_memory.py: the run of get_and_show_info      *)
(* (pull, merge of the memory-report fragments, procrank, DMD routing,     *)
(* kgsl, archive) over the session directory out_dir.                      *)
(*                                                                         *)
(* Python strings are sequences of one-character strings, so that prefix   *)
(* tests, regular-expression matches, int() and '%d' are computed on the   *)
(* characters.  A path is the basename of a file inside out_dir (every     *)
(* path of the program is os.path.join(out_dir, basename)).                *)
(***************************************************************************)
EXTENDS Integers, Sequences, FiniteSets, TLC

VARIABLES
    args,                 \* the parsed command-line options
    device,               \* what the collaborators deliver: files, procrank, kgsl
    fs,                   \* out_dir: basename -> content
    pc,                   \* position of the run inside get_and_show_info
    memory_report_files,  \* get_dumps.do_work: the fragments, in pull order
    dmd_files,            \* get_dumps.do_work: the DMD artifacts, in pull order
    merged_reports_path,  \* None or the path of 'memory-reports'
    merge_calls,          \* number of invocations of merge_files
    out,                  \* messages printed to stdout / stderr, in order
    proc_names,           \* process_dmd_files_impl: pid -> name
    idx,                  \* process_dmd_files_impl: position of the loop in dmd_files
    fix_calls,            \* the calls made to fix_b2g_stack.fix_b2g_stacks_in_file
    archive               \* content of the bz2 archive, once created

vars == <<args, device, fs, pc, memory_report_files, dmd_files,
          merged_reports_path, merge_calls, out, proc_names, idx, fix_calls,
          archive>>

---------------------------------------------------------------------------
(* Bounds of the model.                                                    *)

MaxFragments == 3     \* files pulled in a run of the merge specification
MaxDmd       == 3     \* files pulled in a run of the DMD specification
MaxLines     == 2     \* lines of b2g-procrank in the name specification

---------------------------------------------------------------------------
(* Characters and strings.                                                 *)

DigitSeq == <<"0", "1", "2", "3", "4", "5", "6", "7", "8", "9">>
UpperSeq == <<"A", "B", "C", "D", "E", "F", "G", "H", "I", "J", "K", "L", "M",
              "N", "O", "P", "Q", "R", "S", "T", "U", "V", "W", "X", "Y", "Z">>
LowerSeq == <<"a", "b", "c", "d", "e", "f", "g", "h", "i", "j", "k", "l", "m",
              "n", "o", "p", "q", "r", "s", "t", "u", "v", "w", "x", "y", "z">>

Range(s) == {s[i] : i \in DOMAIN s}

\* \d
IsDigit(c) == c \in Range(DigitSeq)
\* \s (str patterns): space, tab, newline, return, form feed, vertical tab
IsSpace(c) == c \in {" ", "\t", "\n", "\r", "\f"}
\* \w without re.UNICODE / re.LOCALE: [a-zA-Z0-9_]
IsWord(c) == c \in Range(LowerSeq) \cup Range(UpperSeq) \cup Range(DigitSeq) \cup {"_"}

\* str.lower() on one character
LowerChar(c) ==
    IF c \in Range(UpperSeq)
    THEN LowerSeq[CHOOSE i \in DOMAIN UpperSeq : UpperSeq[i] = c]
    ELSE c

\* str.lower()
Lower(s) == [i \in DOMAIN s |-> LowerChar(s[i])]

\* re.sub('\W', '', s): the characters of s that \W does not match, in order
RECURSIVE StripNonWord(_)
StripNonWord(s) ==
    IF s = <<>> THEN <<>>
    ELSE (IF IsWord(Head(s)) THEN <<Head(s)>> ELSE <<>>) \o StripNonWord(Tail(s))

\* int(s) for a string of decimal digits
RECURSIVE ParseInt(_)
ParseInt(s) ==
    IF s = <<>> THEN 0
    ELSE 10 * ParseInt(SubSeq(s, 1, Len(s) - 1))
         + (CHOOSE d \in 0..9 : DigitSeq[d + 1] = s[Len(s)])

\* '%d' % n for n >= 0
RECURSIVE FormatInt(_)
FormatInt(n) ==
    IF n < 10 THEN <<DigitSeq[n + 1]>>
    ELSE FormatInt(n \div 10) \o <<DigitSeq[(n % 10) + 1]>>

\* s.startswith(p)
StartsWith(s, p) == Len(s) >= Len(p) /\ SubSeq(s, 1, Len(p)) = p
\* s.endswith(p)
EndsWith(s, p) == Len(s) >= Len(p) /\ SubSeq(s, Len(s) - Len(p) + 1, Len(s)) = p
\* p occurs in s at position i
HasAt(s, i, p) == i >= 1 /\ i + Len(p) - 1 <= Len(s) /\ SubSeq(s, i, i + Len(p) - 1) = p

\* \d+ at position i: the length of the longest run of digits starting there
RECURSIVE DigitRun(_, _)
DigitRun(s, i) ==
    IF i >= 1 /\ i <= Len(s) /\ IsDigit(s[i]) THEN 1 + DigitRun(s, i + 1) ELSE 0

\* \D* at position i: the length of the longest run of non-digits starting there
RECURSIVE NonDigitRun(_, _)
NonDigitRun(s, i) ==
    IF i >= 1 /\ i <= Len(s) /\ ~IsDigit(s[i]) THEN 1 + NonDigitRun(s, i + 1) ELSE 0

\* \S+ at position i: the length of the longest run of non-whitespace starting there
RECURSIVE NonSpaceRun(_, _)
NonSpaceRun(s, i) ==
    IF i >= 1 /\ i <= Len(s) /\ ~IsSpace(s[i]) THEN 1 + NonSpaceRun(s, i + 1) ELSE 0

\* \s+ at position i: the length of the longest run of whitespace starting there
RECURSIVE SpaceRun(_, _)
SpaceRun(s, i) ==
    IF i >= 1 /\ i <= Len(s) /\ IsSpace(s[i]) THEN 1 + SpaceRun(s, i + 1) ELSE 0

\* the string literals of the program
DMD_PREFIX      == <<"d", "m", "d", "-">>
DASH            == <<"-">>
DOT             == <<".">>
TXT             == <<"t", "x", "t">>
JSON            == <<"j", "s", "o", "n">>
GZ              == <<".", "g", "z">>
PROCESSED       == <<"p", "r", "o", "c", "e", "s", "s", "e", "d", "-">>
MEMORY_REPORT   == <<"m", "e", "m", "o", "r", "y", "-", "r", "e", "p", "o", "r", "t", "-">>
UNIFIED         == <<"u", "n", "i", "f", "i", "e", "d", "-">> \o MEMORY_REPORT
MEMORY_REPORTS  == <<"m", "e", "m", "o", "r", "y", "-", "r", "e", "p", "o", "r", "t", "s">>
B2G_PROCRANK    == <<"b", "2", "g", "-", "p", "r", "o", "c", "r", "a", "n", "k">>
KGSL_PREFIX     == <<"k", "g", "s", "l", "-">>
MEM_SUFFIX      == <<"-", "m", "e", "m">>

\* Python's None, as a value of merged_reports_path (a path is never empty)
None == <<>>

\* the dict d with d[k] = v
Put(d, k, v) == [x \in DOMAIN d \cup {k} |-> IF x = k THEN v ELSE d[x]]
\* the directory d without the file k (os.remove)
Remove(d, k) == [x \in DOMAIN d \ {k} |-> d[x]]

---------------------------------------------------------------------------
(* get_proc_names.                                                         *)

\* re.match(r'^(\S+)\s+\D*(\d+)', line).  Every quantifier is greedy, and
\* giving characters back never yields another match: a shorter (\S+) is not
\* followed by whitespace, whitespace given back by \s+ is taken by \D*, and
\* a shorter \D* is followed by a non-digit.  The match found first is the
\* one computed here.
ProcrankMatch(line) ==
    LET n1 == NonSpaceRun(line, 1)
        w  == SpaceRun(line, n1 + 1)
        nd == NonDigitRun(line, n1 + w + 1)
        d0 == n1 + w + nd + 1
        n2 == DigitRun(line, d0)
    IN  IF n1 >= 1 /\ w >= 1 /\ n2 >= 1
        THEN [matched |-> TRUE,
              group1  |-> SubSeq(line, 1, n1),
              group2  |-> SubSeq(line, d0, d0 + n2 - 1)]
        ELSE [matched |-> FALSE, group1 |-> <<>>, group2 |-> <<>>]

\* re.sub('\W', '', match.group(1)).lower(): '_' is a word character and stays
NormalizeName(group1) == Lower(StripNonWord(group1))

\* the loop of get_proc_names over the lines procrank[i..], from the dict acc
RECURSIVE ProcNamesFrom(_, _, _)
ProcNamesFrom(procrank, i, acc) ==
    IF i > Len(procrank) THEN acc
    ELSE LET match == ProcrankMatch(procrank[i])
         IN  IF ~match.matched
             THEN ProcNamesFrom(procrank, i + 1, acc)
             ELSE ProcNamesFrom(procrank, i + 1,
                                Put(acc, ParseInt(match.group2),
                                    NormalizeName(match.group1)))

\* get_proc_names(out_dir)[0], for the lines of out_dir/b2g-procrank
get_proc_names(procrank) == ProcNamesFrom(procrank, 1, <<>>)

---------------------------------------------------------------------------
(* process_dmd_files_impl: classification and output name of one file.     *)

\* re.match(r'^dmd-(\d+)-(\d+).(txt|json)', basename).  The first (\d+) is
\* followed by a literal '-', so it is the whole run of digits.  The second
\* (\d+) is followed by '.', which matches any character, a digit too: the
\* match is tried with the longest run first and then with shorter ones.
\* Nothing anchors the end of the name.
DmdFilenameMatch(basename) ==
    LET n1 == DigitRun(basename, 5)
        q  == 5 + n1
        n2 == DigitRun(basename, q + 1)
        KindAt(i) == IF HasAt(basename, i, TXT) THEN TXT
                     ELSE IF HasAt(basename, i, JSON) THEN JSON
                     ELSE <<>>
        Ks == {k \in 1..n2 : q + k + 1 <= Len(basename) /\ KindAt(q + k + 2) # <<>>}
    IN  IF StartsWith(basename, DMD_PREFIX) /\ n1 >= 1
           /\ HasAt(basename, q, DASH) /\ Ks # {}
        THEN LET k == CHOOSE x \in Ks : \A y \in Ks : y <= x
             IN  [matched |-> TRUE,
                  group1  |-> SubSeq(basename, 5, q - 1),
                  group2  |-> SubSeq(basename, q + 1, q + k),
                  group3  |-> KindAt(q + k + 2)]
        ELSE [matched |-> FALSE, group1 |-> <<>>, group2 |-> <<>>, group3 |-> <<>>]

\* outfile_name with the creation time in it
OutfileName_WithTime(basename, names) ==
    LET m == DmdFilenameMatch(basename)
    IN  IF m.matched
        THEN DMD_PREFIX \o m.group1 \o DASH \o FormatInt(ParseInt(m.group2))
             \o DOT \o m.group3
        ELSE PROCESSED \o basename

\* outfile_name that never takes the name of the process
OutfileName_NoName(basename, names) ==
    LET m == DmdFilenameMatch(basename)
    IN  IF m.matched
        THEN DMD_PREFIX \o FormatInt(ParseInt(m.group2)) \o DOT \o m.group3
        ELSE PROCESSED \o basename

\* outfile_name of process_dmd_files_impl, for the name map names
OutfileName(basename, names) ==
    LET m == DmdFilenameMatch(basename)
    IN  IF m.matched
        THEN LET pid  == ParseInt(m.group2)
                 kind == m.group3
             IN  IF pid \in DOMAIN names
                 THEN DMD_PREFIX \o names[pid] \o DASH \o FormatInt(pid) \o DOT \o kind
                 ELSE DMD_PREFIX \o FormatInt(pid) \o DOT \o kind
        ELSE LET n == PROCESSED \o basename
             IN  IF EndsWith(n, GZ) THEN SubSeq(n, 1, Len(n) - 3) ELSE n

\* the path opened for writing: outfile_path + '.gz' if args.compress_dmd_logs
OutfilePath(basename, names, compress) ==
    OutfileName(basename, names) \o (IF compress THEN GZ ELSE <<>>)

---------------------------------------------------------------------------
(* merge_files.                                                            *)

\* a message printed by the program; prop names the property it is about
Msg(text, prop) == [text |-> text, prop |-> prop]

\* the elements of the finite set S as a sequence.  Python iterates a dict
\* in an order the language leaves open; the model fixes one.
RECURSIVE SetToSeq(_)
SetToSeq(S) ==
    IF S = {} THEN <<>>
    ELSE LET x == CHOOSE y \in S : TRUE IN <<x>> \o SetToSeq(S \ {x})

\* the properties other than 'reports' on which dump and merged_dump differ
ConflictingProps(merged_dump, dump) ==
    {prop \in DOMAIN merged_dump :
        prop # "reports" /\ dump[prop] # merged_dump[prop]}

\* the messages of one pass of the loop over the properties
ConflictMsgs(merged_dump, dump) ==
    LET props == SetToSeq(ConflictingProps(merged_dump, dump))
    IN  [i \in DOMAIN props |-> Msg("not the same value for property", props[i])]

\* merged_dump['reports'] replaced by the reports of dump
ConcatReports_Replace(merged_dump, dump) ==
    [merged_dump EXCEPT !["reports"] = dump["reports"]]

\* merged_dump['reports'] += dump['reports']
ConcatReports(merged_dump, dump) ==
    [merged_dump EXCEPT !["reports"] = @ \o dump["reports"]]

\* the loop of merge_files with a return in the branch of a conflicting value
RECURSIVE MergeFrom_AbortOnConflict(_, _, _, _)
MergeFrom_AbortOnConflict(dumps, i, merged_dump, msgs) ==
    IF i > Len(dumps)
    THEN [raised |-> FALSE, path |-> MEMORY_REPORTS, doc |-> merged_dump, msgs |-> msgs]
    ELSE IF DOMAIN dumps[i] # DOMAIN merged_dump
    THEN [raised |-> FALSE, path |-> None, doc |-> <<>>,
          msgs |-> Append(msgs, Msg("not the same set of properties", ""))]
    ELSE IF ConflictingProps(merged_dump, dumps[i]) # {}
    THEN [raised |-> FALSE, path |-> None, doc |-> <<>>,
          msgs |-> msgs \o ConflictMsgs(merged_dump, dumps[i])]
    ELSE MergeFrom_AbortOnConflict(dumps, i + 1, ConcatReports(merged_dump, dumps[i]),
                                   msgs)

\* the loop of merge_files over dumps[i..], from the accumulator merged_dump:
\* a differing property set returns None; a differing value only prints
RECURSIVE MergeFrom(_, _, _, _)
MergeFrom(dumps, i, merged_dump, msgs) ==
    IF i > Len(dumps)
    THEN [raised |-> FALSE, path |-> MEMORY_REPORTS, doc |-> merged_dump, msgs |-> msgs]
    ELSE IF DOMAIN dumps[i] # DOMAIN merged_dump
    THEN [raised |-> FALSE, path |-> None, doc |-> <<>>,
          msgs |-> Append(msgs, Msg("not the same set of properties", ""))]
    ELSE MergeFrom(dumps, i + 1, ConcatReports(merged_dump, dumps[i]),
                   msgs \o ConflictMsgs(merged_dump, dumps[i]))

\* merge_files(dir, files) for the documents dumps loaded from the files:
\* what it returns (path), the document it writes (doc) when it returns a
\* path, and what it prints.  dumps[0] of an empty list raises IndexError.
merge_files(dumps) ==
    IF dumps = <<>>
    THEN [raised |-> TRUE, path |-> None, doc |-> <<>>, msgs |-> <<>>]
    ELSE MergeFrom(dumps, 2, dumps[1], <<>>)

---------------------------------------------------------------------------
(* The inputs: what is on the device when the run starts.                  *)

\* the content of a file that holds a memory-report fragment
Fragment(doc) == [kind |-> "json", doc |-> doc]
\* the bytes of the file name as the device wrote them
Raw(name) == [kind |-> "raw", of |-> name]
\* what the symbol resolver wrote when reading the artifact name
Output(name, complete) == [kind |-> "out", of |-> name, complete |-> complete]

DeviceFile(name, content) == [name |-> name, content |-> content]

FragA == [reports |-> <<"a1", "a2">>, version |-> 1]
FragB == [reports |-> <<"b1">>, version |-> 1]
FragC == [reports |-> <<"c1">>, version |-> 2]
FragD == [reports |-> <<"d1">>, version |-> 1, hasMozillaCheckout |-> 1]

Dmd_9_7_txt_gz  == DMD_PREFIX \o <<"9", "-", "7">> \o DOT \o TXT \o GZ
Dmd_5_7_txt_gz  == DMD_PREFIX \o <<"5", "-", "7">> \o DOT \o TXT \o GZ
Dmd_9_07_json   == DMD_PREFIX \o <<"9", "-", "0", "7">> \o DOT \o JSON
Dmd_9_8_txt_bak == DMD_PREFIX \o <<"9", "-", "8">> \o DOT \o TXT \o <<".", "b", "a", "k">>
Dmd_app_7_txt_gz == DMD_PREFIX \o <<"a", "p", "p", "-", "7">> \o DOT \o TXT \o GZ

\* the files a run of the merge specification may pull
MergePool ==
    { DeviceFile(MEMORY_REPORT \o <<"1">>, Fragment(FragA)),
      DeviceFile(MEMORY_REPORT \o <<"2">>, Fragment(FragB)),
      DeviceFile(UNIFIED \o <<"3">>, Fragment(FragC)),
      DeviceFile(MEMORY_REPORT \o <<"4">>, Fragment(FragD)),
      DeviceFile(MEMORY_REPORT \o <<"5">>, Fragment(FragB)),
      DeviceFile(<<"r", "e", "p", "o", "r", "t", "-", "6">>, Fragment(FragA)),
      DeviceFile(Dmd_9_7_txt_gz, Raw(Dmd_9_7_txt_gz)) }

\* the DMD artifacts a run of the DMD specification may pull
DmdPool ==
    { DeviceFile(n, Raw(n)) :
        n \in {Dmd_9_7_txt_gz, Dmd_5_7_txt_gz, Dmd_9_07_json, Dmd_9_8_txt_bak,
               Dmd_app_7_txt_gz} }

\* lines of b2g-procrank
Line_app_7      == <<"a", "p", "p", " ", "7">>
Line_5_7        == <<"5", " ", "7">>
Line_App_paren  == <<"(", "A", "p", "p", ")", " ", "7", " ", "1">>
Line_my_app_8   == <<"m", "y", "_", "a", "p", "p", " ", "8">>
Line_APP_x_12   == <<"A", "P", "P", " ", " ", "x", " ", "1", "2">>
Line_header     == <<"A", "P", "P", " ", "P", "I", "D">>
Line_indented   == <<" ", "7", " ", "x">>
Line_b2g1       == <<"b", "2", "g", "1">>

NamesPool == {Line_app_7, Line_5_7, Line_App_paren, Line_my_app_8, Line_APP_x_12,
              Line_header, Line_indented, Line_b2g1}

\* the sequences of at most n distinct elements of S
SeqsNoDup(S, n) ==
    {q \in UNION {[1..k -> S] : k \in 0..n} :
        \A i, j \in DOMAIN q : i # j => q[i] # q[j]}

\* the sequences of at most n elements of S
SeqsUpTo(S, n) == UNION {[1..k -> S] : k \in 0..n}

Args(keep, compress, no_dmd, archive_) ==
    [keep_individual_reports |-> keep, compress_dmd_logs |-> compress,
     no_dmd |-> no_dmd, no_kgsl_logs |-> FALSE, create_archive |-> archive_]

Kgsl == [available |-> TRUE, pids |-> << <<"7">> >>]

\* the state when get_and_show_info is entered and out_dir has been created
Start ==
    /\ fs = <<>>
    /\ pc = "pull"
    /\ memory_report_files = <<>>
    /\ dmd_files = <<>>
    /\ merged_reports_path = None
    /\ merge_calls = 0
    /\ out = <<>>
    /\ proc_names = <<>>
    /\ idx = 0
    /\ fix_calls = <<>>
    /\ archive = [created |-> FALSE, content |-> <<>>]

\* runs that differ in the fragments pulled
Init ==
    /\ args \in {Args(k, TRUE, FALSE, a) : k \in BOOLEAN, a \in BOOLEAN}
    /\ device \in {[files |-> f, procrank |-> <<Line_app_7>>, kgsl |-> Kgsl] :
                      f \in SeqsNoDup(MergePool, MaxFragments)}
    /\ Start

\* runs that differ in the DMD artifacts pulled, the names and the options
InitDmd ==
    /\ args \in {Args(k, c, n, FALSE) : k \in BOOLEAN, c \in BOOLEAN, n \in BOOLEAN}
    /\ device \in {[files |-> <<DeviceFile(MEMORY_REPORT \o <<"1">>, Fragment(FragA))>> \o f,
                    procrank |-> p, kgsl |-> Kgsl] :
                      f \in SeqsNoDup(DmdPool, MaxDmd),
                      p \in {<<>>, <<Line_app_7>>, <<Line_5_7>>}}
    /\ Start

\* runs that differ in the process-rank snapshot
InitNames ==
    /\ args = Args(FALSE, TRUE, FALSE, FALSE)
    /\ device \in {[files |-> <<DeviceFile(MEMORY_REPORT \o <<"1">>, Fragment(FragA)),
                                DeviceFile(Dmd_9_7_txt_gz, Raw(Dmd_9_7_txt_gz))>>,
                    procrank |-> p, kgsl |-> Kgsl] :
                      p \in SeqsUpTo(NamesPool, MaxLines)}
    /\ Start

---------------------------------------------------------------------------
(* get_dumps.                                                              *)

\* the names of the files, in the order of the pull
Names(files) == [i \in DOMAIN files |-> files[i].name]

IsMemoryReport(f) == StartsWith(f, MEMORY_REPORT) \/ StartsWith(f, UNIFIED)
IsDmd(f) == StartsWith(f, DMD_PREFIX)

\* out_dir after the files q[i..] were added to the directory d
RECURSIVE Pulled(_, _, _)
Pulled(d, q, i) ==
    IF i > Len(q) THEN d ELSE Pulled(Put(d, q[i].name, q[i].content), q, i + 1)

\* out_dir after the files q[i..] were removed from the directory d
RECURSIVE Removed(_, _, _)
Removed(d, q, i) ==
    IF i > Len(q) THEN d ELSE Removed(Remove(d, q[i]), q, i + 1)

\* do_work: utils.notify_and_pull_files puts the new files of the device in
\* out_dir and returns their names; the names are split by prefix
NotifyAndPull ==
    /\ pc = "pull"
    /\ LET new_files == Names(device.files)
       IN  /\ fs' = Pulled(fs, device.files, 1)
           /\ memory_report_files' = SelectSeq(new_files, IsMemoryReport)
           /\ dmd_files' = SelectSeq(new_files, IsDmd)
    /\ pc' = "merge"
    /\ UNCHANGED <<args, device, merged_reports_path, merge_calls, out,
                   proc_names, idx, fix_calls, archive>>

\* do_work: merge_files is called whatever the list holds
ShouldMerge_Always(files) == TRUE

\* do_work: 'if memory_report_files:'
ShouldMerge(files) == files # <<>>

\* do_work: the merge.  os.path.abspath(None) raises, and so does dumps[0] of
\* an empty list: the exception leaves do_work and get_dumps (whether
\* utils.run_and_delete_dir_on_exception re-raises it or returns None, the
\* tuple assignment of get_and_show_info cannot complete), and the run ends
\* with out_dir, which is not empty, left as it is.
MergeReports ==
    /\ pc = "merge"
    /\ IF ShouldMerge(memory_report_files)
       THEN LET dumps == [i \in DOMAIN memory_report_files |->
                             fs[memory_report_files[i]].doc]
                r == merge_files(dumps)
            IN  /\ merge_calls' = merge_calls + 1
                /\ out' = out \o r.msgs
                /\ IF r.path # None
                   THEN /\ fs' = Put(fs, MEMORY_REPORTS, Fragment(r.doc))
                        /\ merged_reports_path' = r.path
                        /\ pc' = "procrank"
                   ELSE /\ fs' = fs
                        /\ merged_reports_path' = None
                        /\ pc' = "crashed"
       ELSE /\ merged_reports_path' = None
            /\ pc' = "procrank"
            /\ UNCHANGED <<fs, merge_calls, out>>
    /\ UNCHANGED <<args, device, memory_report_files, dmd_files, proc_names,
                   idx, fix_calls, archive>>

\* do_work: utils.pull_procrank_etc writes out_dir/b2g-procrank
PullProcrankEtc ==
    /\ pc = "procrank"
    /\ fs' = Put(fs, B2G_PROCRANK, [kind |-> "procrank", lines |-> device.procrank])
    /\ pc' = "cleanup"
    /\ UNCHANGED <<args, device, memory_report_files, dmd_files,
                   merged_reports_path, merge_calls, out, proc_names, idx,
                   fix_calls, archive>>

\* do_work: the fragments are removed unless args.keep_individual_reports
RemoveIndividualReports ==
    /\ pc = "cleanup"
    /\ fs' = IF args.keep_individual_reports THEN fs
             ELSE Removed(fs, memory_report_files, 1)
    /\ pc' = "show"
    /\ UNCHANGED <<args, device, memory_report_files, dmd_files,
                   merged_reports_path, merge_calls, out, proc_names, idx,
                   fix_calls, archive>>

---------------------------------------------------------------------------
(* get_and_show_info, after get_dumps.                                     *)

\* the messages about the DMD dumps and about the merged report
ShowReport ==
    /\ pc = "show"
    /\ out' = out
              \o (IF dmd_files # <<>> /\ ~args.no_dmd
                  THEN <<Msg("Got DMD dump(s)", "")>> ELSE <<>>)
              \o (IF merged_reports_path # None
                  THEN <<Msg("open the following URL", "")>>
                  ELSE <<Msg("Failed to retrieve memory reports", "")>>)
    /\ pc' = "gc"
    /\ UNCHANGED <<args, device, fs, memory_report_files, dmd_files,
                   merged_reports_path, merge_calls, proc_names, idx,
                   fix_calls, archive>>

\* get_gc_cc_log.get_logs: a collaborator, which writes its own files
GetGcCcLogs ==
    /\ pc = "gc"
    /\ pc' = "dmd"
    /\ UNCHANGED <<args, device, fs, memory_report_files, dmd_files,
                   merged_reports_path, merge_calls, out, proc_names, idx,
                   fix_calls, archive>>

\* the except clause of process_dmd_files
ErrorMsg == Msg("An error occurred while processing the DMD dumps", "")

\* process_dmd_files up to the loop: nothing to do, or the name map is read
\* from out_dir/b2g-procrank (open() raises when the file is missing)
process_dmd_files ==
    /\ pc = "dmd"
    /\ IF dmd_files = <<>> \/ args.no_dmd
       THEN /\ pc' = "kgsl"
            /\ UNCHANGED <<out, proc_names, idx>>
       ELSE IF B2G_PROCRANK \notin DOMAIN fs
       THEN /\ pc' = "kgsl"
            /\ out' = out \o <<Msg("Processing DMD files", ""), ErrorMsg>>
            /\ UNCHANGED <<proc_names, idx>>
       ELSE /\ pc' = "dmd_loop"
            /\ out' = Append(out, Msg("Processing DMD files", ""))
            /\ proc_names' = get_proc_names(fs[B2G_PROCRANK].lines)
            /\ idx' = 1
    /\ UNCHANGED <<args, device, fs, memory_report_files, dmd_files,
                   merged_reports_path, merge_calls, fix_calls, archive>>

\* an exception in the loop body that is caught inside the loop, which goes
\* on with the next file
AfterRaise_NextFile(i) ==
    IF i < Len(dmd_files)
    THEN [pc |-> "dmd_loop", idx |-> i + 1, msgs |-> <<ErrorMsg>>]
    ELSE [pc |-> "kgsl", idx |-> i, msgs |-> <<ErrorMsg>>]

\* an exception in the loop body at file i: nothing catches it inside
\* process_dmd_files_impl; the except clause of process_dmd_files prints
\* and returns
AfterRaise(i) == [pc |-> "kgsl", idx |-> i, msgs |-> <<ErrorMsg>>]

\* one pass of the loop of process_dmd_files_impl, on dmd_files[idx]: the
\* output file is opened for writing (created or truncated), the input is
\* opened for reading, the resolver copies one into the other or raises, and
\* the input is removed unless args.keep_individual_reports
process_dmd_files_impl ==
    /\ pc = "dmd_loop"
    /\ \E ok \in BOOLEAN :
         LET f         == dmd_files[idx]
             outfile   == OutfilePath(f, proc_names, args.compress_dmd_logs)
             opened    == Put(fs, outfile, Output(f, FALSE))
             readable  == f \in DOMAIN opened
             fixed     == readable /\ ok
             written   == IF fixed THEN Put(opened, outfile, Output(f, TRUE))
                          ELSE opened
             remove    == fixed /\ ~args.keep_individual_reports
             raised    == ~fixed \/ (remove /\ f \notin DOMAIN written)
             after     == IF raised THEN AfterRaise(idx)
                          ELSE IF idx < Len(dmd_files)
                          THEN [pc |-> "dmd_loop", idx |-> idx + 1, msgs |-> <<>>]
                          ELSE [pc |-> "kgsl", idx |-> idx,
                                msgs |-> <<Msg("Done processing DMD files", "")>>]
         IN  /\ fs' = IF remove /\ ~raised THEN Remove(written, f) ELSE written
             /\ fix_calls' = IF readable
                             THEN Append(fix_calls,
                                         [f |-> f, outfile |-> outfile, ok |-> ok])
                             ELSE fix_calls
             /\ pc' = after.pc
             /\ idx' = after.idx
             /\ out' = out \o after.msgs
    /\ UNCHANGED <<args, device, memory_report_files, dmd_files,
                   merged_reports_path, merge_calls, proc_names, archive>>

\* the loop of get_kgsl_files over pids[i..]: the files whose pull succeeded
\* (the positions in ok) are added to the directory d
RECURSIVE KgslPulled(_, _, _, _, _)
KgslPulled(d, names, pids, i, ok) ==
    IF i > Len(pids) THEN d
    ELSE LET pid  == ParseInt(pids[i])
             name == IF pid \in DOMAIN names THEN names[pid] ELSE pids[i]
             dest == KGSL_PREFIX \o name \o MEM_SUFFIX
         IN  KgslPulled(IF i \in ok THEN Put(d, dest, [kind |-> "kgsl", of |-> pids[i]])
                        ELSE d,
                        names, pids, i + 1, ok)

\* get_kgsl_files, unless args.no_kgsl_logs.  get_proc_names is not inside a
\* try: a missing b2g-procrank ends the run.
get_kgsl_files ==
    /\ pc = "kgsl"
    /\ IF args.no_kgsl_logs
       THEN /\ pc' = "archive"
            /\ UNCHANGED <<fs, out>>
       ELSE IF B2G_PROCRANK \notin DOMAIN fs
       THEN /\ pc' = "crashed"
            /\ out' = Append(out, Msg("Processing kgsl files", ""))
            /\ UNCHANGED fs
       ELSE IF ~device.kgsl.available
       THEN /\ pc' = "archive"
            /\ out' = out \o <<Msg("Processing kgsl files", ""),
                               Msg("kgsl graphics memory logs not available", "")>>
            /\ UNCHANGED fs
       ELSE \E ok \in SUBSET DOMAIN device.kgsl.pids :
              /\ fs' = KgslPulled(fs, get_proc_names(fs[B2G_PROCRANK].lines),
                                  device.kgsl.pids, 1, ok)
              /\ out' = out \o <<Msg("Processing kgsl files", "")>>
                        \o [i \in 1..(Len(device.kgsl.pids) - Cardinality(ok)) |->
                               Msg("Unable to retrieve kgsl file", "")]
                        \o <<Msg("Done processing kgsl files", "")>>
              /\ pc' = "archive"
    /\ UNCHANGED <<args, device, memory_report_files, dmd_files,
                   merged_reports_path, merge_calls, proc_names, idx,
                   fix_calls, archive>>

\* 'if args.create_archive:' out_dir is archived and then removed
CreateArchive ==
    /\ pc = "archive"
    /\ IF args.create_archive
       THEN /\ archive' = [created |-> TRUE, content |-> fs]
            /\ fs' = <<>>
            /\ out' = Append(out, Msg("Archiving logs", ""))
       ELSE UNCHANGED <<archive, fs, out>>
    /\ pc' = "done"
    /\ UNCHANGED <<args, device, memory_report_files, dmd_files,
                   merged_reports_path, merge_calls, proc_names, idx, fix_calls>>

Next ==
    \/ NotifyAndPull
    \/ MergeReports
    \/ PullProcrankEtc
    \/ RemoveIndividualReports
    \/ ShowReport
    \/ GetGcCcLogs
    \/ process_dmd_files
    \/ process_dmd_files_impl
    \/ get_kgsl_files
    \/ CreateArchive

Spec      == Init /\ [][Next]_vars
SpecDmd   == InitDmd /\ [][Next]_vars
SpecNames == InitNames /\ [][Next]_vars

---------------------------------------------------------------------------
(* Properties of the merge.                                                *)

\* the documents of the fragments the device delivers, in the order of the pull
FragmentDocs ==
    LET frags == SelectSeq(device.files, LAMBDA f : IsMemoryReport(f.name))
    IN  [i \in DOMAIN frags |-> frags[i].content.doc]

\* f0.reports ++ f1.reports ++ ... from position i on
RECURSIVE FlatReports(_, _)
FlatReports(docs, i) ==
    IF i > Len(docs) THEN <<>> ELSE docs[i]["reports"] \o FlatReports(docs, i + 1)

\* every fragment has the property names of the first
SameKeys(docs) == \A i \in DOMAIN docs : DOMAIN docs[i] = DOMAIN docs[1]

\* some fragment differs from the first in a property other than 'reports'
HasConflict(docs) ==
    \E i \in DOMAIN docs : \E prop \in DOMAIN docs[1] \ {"reports"} :
        docs[i][prop] # docs[1][prop]

\* merge_files has returned and out_dir has not been archived and removed
Merged == merge_calls = 1 /\ ~archive.created

\* C1: when the fragments all have the same property names, the 'reports'
\* list of the merged document is the concatenation of the fragments'
\* reports in the order of the pull, and merging all the fragments gives the
\* reports of merging all but the last followed by the reports of the last.
C1_ReportsConcatenated ==
    LET docs == FragmentDocs
    IN  (Merged /\ docs # <<>> /\ SameKeys(docs)) =>
            /\ MEMORY_REPORTS \in DOMAIN fs
            /\ fs[MEMORY_REPORTS].kind = "json"
            /\ fs[MEMORY_REPORTS].doc["reports"] = FlatReports(docs, 1)
            /\ Len(docs) >= 2 =>
                   merge_files(docs).doc["reports"] =
                       merge_files(SubSeq(docs, 1, Len(docs) - 1)).doc["reports"]
                       \o docs[Len(docs)]["reports"]

\* three fragments with the same property names have been merged
C1_Witness ==
    /\ pc = "procrank"
    /\ Len(FragmentDocs) = 3
    /\ SameKeys(FragmentDocs)
    /\ fs[MEMORY_REPORTS].doc["reports"] = <<"b1", "a1", "a2", "c1">>

\* C2: when a fragment's property names differ from the first fragment's,
\* no 'memory-reports' file is written, no path is handed on, and the run
\* goes on instead of ending with an exception.
C2_MismatchProceeds ==
    LET docs == FragmentDocs
    IN  (merge_calls = 1 /\ ~SameKeys(docs)) =>
            /\ MEMORY_REPORTS \notin DOMAIN fs
            /\ merged_reports_path = None
            /\ pc # "crashed"

NoFragments == \A i \in DOMAIN device.files : ~IsMemoryReport(device.files[i].name)

\* C9: when the pull yields no fragment, merge_files is never called, no
\* 'memory-reports' file exists (in out_dir or in the archive), the merged
\* path is None, the failure to retrieve the reports is printed, and the run
\* neither ends with an exception nor stops before its last step.
C9_NoFragmentsNoMerge ==
    NoFragments =>
        /\ merge_calls = 0
        /\ MEMORY_REPORTS \notin DOMAIN fs
        /\ MEMORY_REPORTS \notin DOMAIN archive.content
        /\ merged_reports_path = None
        /\ pc # "crashed"
        /\ pc \in {"gc", "dmd", "dmd_loop", "kgsl", "archive", "done"} =>
               \E k \in DOMAIN out : out[k] = Msg("Failed to retrieve memory reports", "")
        /\ pc = "done" \/ ENABLED Next

\* a run without fragments that routed a DMD artifact and reached its end
C9_Witness ==
    /\ NoFragments
    /\ pc = "done"
    /\ Len(device.files) = 2
    /\ Len(fix_calls) = 1
    /\ archive.created

---------------------------------------------------------------------------
(* Properties of the DMD routing.                                          *)

AllDigits(q) == q # <<>> /\ \A i \in DOMAIN q : IsDigit(q[i])

\* the ways to read f as 'dmd-<digits>-<digits>.<txt|json>', with or without
\* a final '.gz' and nothing else: the digits of the pid and the format
WellFormedSplits(f) ==
    LET Dashes == {i \in 5..Len(f) :
                      /\ StartsWith(f, DMD_PREFIX)
                      /\ AllDigits(SubSeq(f, 5, i))
                      /\ HasAt(f, i + 1, DASH)}
        Ends(i) == {y \in ((i + 2)..Len(f)) \X {TXT, JSON} :
                      /\ AllDigits(SubSeq(f, i + 2, y[1]))
                      /\ SubSeq(f, y[1] + 1, Len(f)) \in {DOT \o y[2], DOT \o y[2] \o GZ}}
    IN  UNION {{[pid |-> SubSeq(f, i + 2, y[1]), kind |-> y[2]] : y \in Ends(i)} :
                  i \in Dashes}

\* the decimal digits of a number written with the digits q
RECURSIVE StripZeros(_)
StripZeros(q) == IF Len(q) > 1 /\ Head(q) = "0" THEN StripZeros(Tail(q)) ELSE q

\* 'dmd-<n>-<p>.<k>' or 'dmd-<p>.<k>', and '.gz' when the logs are compressed
ExpectedDmdPath(pid, kind) ==
    (IF ParseInt(pid) \in DOMAIN proc_names
     THEN DMD_PREFIX \o proc_names[ParseInt(pid)] \o DASH \o StripZeros(pid) \o DOT \o kind
     ELSE DMD_PREFIX \o StripZeros(pid) \o DOT \o kind)
    \o (IF args.compress_dmd_logs THEN GZ ELSE <<>>)

\* 'processed-<basename>' without one final '.gz', and '.gz' when compressed
ExpectedGenericPath(f) ==
    PROCESSED \o (IF EndsWith(f, GZ) THEN SubSeq(f, 1, Len(f) - 3) ELSE f)
    \o (IF args.compress_dmd_logs THEN GZ ELSE <<>>)

\* process_dmd_files has returned (the next step is get_kgsl_files)
BatchOver == pc = "kgsl" /\ dmd_files # <<>> /\ ~args.no_dmd

\* the resolver completed on the artifact f
Succeeded(f) == \E i \in DOMAIN fix_calls : fix_calls[i].f = f /\ fix_calls[i].ok

\* C4: when the resolver raises on one artifact, every other artifact of
\* the batch has still been routed and has its output once the batch is over.
C4_BatchNotAborted ==
    (BatchOver /\ \E i \in DOMAIN fix_calls : ~fix_calls[i].ok) =>
        \A k \in DOMAIN dmd_files :
            \/ \E i \in DOMAIN fix_calls : fix_calls[i].f = dmd_files[k] /\ ~fix_calls[i].ok
            \/ Succeeded(dmd_files[k])

\* C4, amended: the resolver is called on the artifacts in input order; a
\* call that raised is the last call of the batch (no later artifact is
\* routed), the error is printed, and the run goes on with get_kgsl_files
\* instead of ending with an exception.
C4_FailureLeavesLoop ==
    /\ Len(fix_calls) <= Len(dmd_files)
    /\ \A i \in DOMAIN fix_calls : fix_calls[i].f = dmd_files[i]
    /\ \A i \in DOMAIN fix_calls : ~fix_calls[i].ok =>
           /\ i = Len(fix_calls)
           /\ pc \in {"kgsl", "archive", "done"}
           /\ \E k \in DOMAIN out : out[k] = ErrorMsg
    /\ (NoFragments \/ SameKeys(FragmentDocs)) => pc # "crashed"

\* the resolver raised on the first of two artifacts and the run reached its end
C4_Witness ==
    /\ pc = "done"
    /\ Len(dmd_files) = 2
    /\ Len(fix_calls) = 1
    /\ ~fix_calls[1].ok
    /\ dmd_files[2] \in DOMAIN fs
    /\ fs[dmd_files[2]] = Raw(dmd_files[2])

\* C5: once the batch is over, a raw artifact on which the resolver
\* completed is gone when keep_individual_reports is false and kept when it
\* is true, and its output is still there; every other raw artifact (the one
\* the resolver raised on, those never reached) is there as it was pulled.
C5_RawDeletedOnlyOnSuccess ==
    BatchOver =>
        \A k \in DOMAIN dmd_files :
            LET f == dmd_files[k]
            IN  IF Succeeded(f)
                THEN /\ args.keep_individual_reports =>
                            f \in DOMAIN fs /\ fs[f] = Raw(f)
                     /\ ~args.keep_individual_reports =>
                            ~(f \in DOMAIN fs /\ fs[f] = Raw(f))
                     /\ \A i \in DOMAIN fix_calls :
                            (fix_calls[i].f = f /\ fix_calls[i].ok) =>
                                fix_calls[i].outfile \in DOMAIN fs
                ELSE f \in DOMAIN fs /\ fs[f] = Raw(f)

\* C6: a file that is classified as a DMD dump, with pid p and format k, is
\* written to 'dmd-<n>-<p>.<k>' when the name map has n for p and to
\* 'dmd-<p>.<k>' otherwise, p in decimal without the zeros of the source
\* name, and '.gz' ends the path exactly when compress_dmd_logs is set.
C6_DmdOutputName ==
    \A i \in DOMAIN fix_calls :
        LET c == fix_calls[i]
            m == DmdFilenameMatch(c.f)
        IN  /\ m.matched =>
                  /\ m.group3 \in {TXT, JSON}
                  /\ c.outfile = ExpectedDmdPath(m.group2, m.group3)
                  /\ EndsWith(c.outfile, GZ) <=> args.compress_dmd_logs
            /\ \A w \in WellFormedSplits(c.f) :
                  /\ m.matched
                  /\ c.outfile = ExpectedDmdPath(w.pid, w.kind)

\* 'dmd-9-07.json' with the name 'app' for pid 7, not compressed
C6_Witness ==
    \E i \in DOMAIN fix_calls :
        /\ fix_calls[i].f = Dmd_9_07_json
        /\ ~args.compress_dmd_logs
        /\ fix_calls[i].outfile =
               DMD_PREFIX \o <<"a", "p", "p", "-", "7">> \o DOT \o JSON

\* C7: a basename is treated as a DMD dump exactly when it reads
\* 'dmd-<digits>-<digits>.<txt|json>' with at most a final '.gz'; any other
\* basename is written to 'processed-<basename>' without one final '.gz'.
C7_DmdIffWellFormed ==
    \A i \in DOMAIN fix_calls :
        LET c == fix_calls[i]
        IN  /\ DmdFilenameMatch(c.f).matched <=> WellFormedSplits(c.f) # {}
            /\ WellFormedSplits(c.f) = {} => c.outfile = ExpectedGenericPath(c.f)

\* the calls of the resolver that wrote to the path outfile
CallsTo(outfile) == {i \in DOMAIN fix_calls : fix_calls[i].outfile = outfile}

\* two successful calls on DMD dumps of the same pid and format
SamePidPairs ==
    {x \in (DOMAIN fix_calls) \X (DOMAIN fix_calls) :
        LET a == DmdFilenameMatch(fix_calls[x[1]].f)
            b == DmdFilenameMatch(fix_calls[x[2]].f)
        IN  /\ x[1] < x[2]
            /\ fix_calls[x[1]].ok /\ fix_calls[x[2]].ok
            /\ a.matched /\ b.matched
            /\ ParseInt(a.group2) = ParseInt(b.group2)
            /\ a.group3 = b.group3}

NoRawAt(f) == ~(f \in DOMAIN fs /\ fs[f] = Raw(f))

---------------------------------------------------------------------------
(* Properties of the name map.                                             *)

\* the ways to read line as '<non-whitespace token> <whitespace> <optional
\* non-digits> <digits>', the digits being a whole run: token and digits
ShapeCaptures(line) ==
    LET Tokens == {a \in 1..Len(line) :
                      /\ \A i \in 1..a : ~IsSpace(line[i])
                      /\ a + 1 <= Len(line) /\ IsSpace(line[a + 1])}
        Runs(a) == {y \in ((a + 2)..Len(line)) \X ((a + 2)..Len(line)) :
                      /\ y[1] <= y[2]
                      /\ \A i \in (a + 2)..(y[1] - 1) : ~IsDigit(line[i])
                      /\ \A i \in y[1]..y[2] : IsDigit(line[i])
                      /\ y[2] = Len(line) \/ ~IsDigit(line[y[2] + 1])}
    IN  UNION {{[name |-> SubSeq(line, 1, a), pid |-> SubSeq(line, y[1], y[2])] :
                   y \in Runs(a)} : a \in Tokens}

\* the name map has been computed by process_dmd_files_impl
NamesRead ==
    pc \in {"dmd_loop", "kgsl", "archive", "done"} /\ dmd_files # <<>> /\ ~args.no_dmd

\* C8: the name map has an entry for exactly the pids captured from the
\* lines of the expected shape, every name in it is made of lowercase
\* letters and digits only, and the name of a pid comes from the last line
\* that yields this pid.
C8_NamesLowerAlnum ==
    NamesRead =>
        LET lines == device.procrank
            PidsAt(i) == {ParseInt(c.pid) : c \in ShapeCaptures(lines[i])}
            Pids == UNION {PidsAt(i) : i \in DOMAIN lines}
        IN  /\ DOMAIN proc_names = Pids
            /\ \A p \in DOMAIN proc_names : \A k \in DOMAIN proc_names[p] :
                   proc_names[p][k] \in Range(LowerSeq) \cup Range(DigitSeq)
            /\ \A p \in Pids :
                   LET last == CHOOSE i \in DOMAIN lines :
                                   /\ p \in PidsAt(i)
                                   /\ \A j \in DOMAIN lines : p \in PidsAt(j) => j <= i
                   IN  \A c \in ShapeCaptures(lines[last]) :
                           proc_names[p] = NormalizeName(c.name)

=============================================================================
